---- MODULE Spec2Model ----
(***************************************************************************)
(* A model of paste/script/pluginlib.py: the plugin resolver               *)
(* (resolve_plugins, parse_lines), the manifest store (add_plugin,         *)
(* remove_plugin on <egg-info>/paster_plugins.txt) and the metadata        *)
(* directory locator (find_egg_info_dir).                                  *)
(*                                                                         *)
(* A Python str is a sequence of one-character strings, so that strip(),   *)
(* lower(), startswith() and endswith() are computed and not assumed.  A   *)
(* text file is the sequence of its lines, each without its line break.    *)
(***************************************************************************)
EXTENDS Integers, Sequences, FiniteSets, TLC

\* ------------------------------------------------------------ bounds

\* Longest list of names a caller hands to resolve_plugins.
MaxInit == 2

\* ----------------------------------------------------------- strings

\* "x" as a str of one character, and so on.
S1(a) == <<a>>
S2(a, b) == <<a, b>>
S3(a, b, c) == <<a, b, c>>

\* The characters str.strip() removes (of those the model uses).
Whitespace == {" "}

RECURSIVE LStrip(_)
LStrip(s) ==
    IF s # <<>> /\ Head(s) \in Whitespace THEN LStrip(Tail(s)) ELSE s

RECURSIVE RStrip(_)
RStrip(s) ==
    IF s # <<>> /\ s[Len(s)] \in Whitespace
    THEN RStrip(SubSeq(s, 1, Len(s) - 1))
    ELSE s

\* str.strip()
Strip(s) == RStrip(LStrip(s))

\* str.lower(), one character
LowerChar(c) ==
    CASE c = "X" -> "x"
      [] c = "Y" -> "y"
      [] OTHER -> c

\* str.lower()
Lower(s) == [i \in 1..Len(s) |-> LowerChar(s[i])]

\* str.startswith('#')
StartsWithHash(s) == s # <<>> /\ Head(s) = "#"

\* x in lst
InList(x, lst) == \E i \in 1..Len(lst) : lst[i] = x

\* parse_lines(data): the stripped lines of data that are neither blank nor
\* '#' comments, in order.  data is given as data.splitlines().
parse_lines(data) ==
    LET stripped == [i \in 1..Len(data) |-> Strip(data[i])]
        Keep(line) == line # <<>> /\ ~StartsWithHash(line)
    IN  SelectSeq(stripped, Keep)

\* The set of elements of a list.
Range(lst) == {lst[i] : i \in 1..Len(lst)}

\* Every list over S of at most n elements.
ListsUpTo(S, n) == UNION {[1..k -> S] : k \in 0..n}

\* ---------------------------------------------------------- registry

\* The names the resolver is asked about, or reads in a manifest.
PluginNames == {S1("a"), S1("b"), S1("c")}

\* A distribution as the registry holds it: whether its metadata has a
\* Metadata-Version, whether it has a paster_plugins.txt, and that file's
\* lines.
Dist(metadata_version, has_plugins, paster_plugins) ==
    [present |-> TRUE, metadata_version |-> metadata_version,
     has_plugins |-> has_plugins, paster_plugins |-> paster_plugins]

\* No distribution of that name: distribution(name) raises
\* PackageNotFoundError.
Absent ==
    [present |-> FALSE, metadata_version |-> FALSE,
     has_plugins |-> FALSE, paster_plugins |-> <<>>]

\* What a distribution's paster_plugins.txt may hold: nothing, one name, two
\* names, and a file with a comment, a blank line and a padded name.
ManifestTexts ==
    { <<>>,
      <<S1("a")>>, <<S1("b")>>, <<S1("c")>>,
      <<S1("b"), S1("c")>>,
      <<S2("#", "a"), <<>>, S3(" ", "c", " ")>> }

\* What the registry may hold under a name: nothing; a distribution without
\* paster_plugins.txt; one with each of ManifestTexts; and one whose metadata
\* has no Metadata-Version, with a manifest of one name.
DistChoices ==
    {Absent, Dist(TRUE, FALSE, <<>>)}
    \cup {Dist(TRUE, TRUE, t) : t \in ManifestTexts}
    \cup {Dist(FALSE, TRUE, t) : t \in {<<S1("b")>>, <<S1("c")>>}}

\* Nothing raised, and PackageNotFoundError raised for plugin.
NotRaised == [raised |-> FALSE, plugin |-> <<>>]
Raised(plugin) == [raised |-> TRUE, plugin |-> plugin]

\* Nothing returned, and the list returned.
NotReturned == [returned |-> FALSE, value |-> <<>>]
Returned(value) == [returned |-> TRUE, value |-> value]

VARIABLES
    registry,     \* name -> Absent or the installed distribution
    input,        \* the list the caller passed, as it was at the call
    plugin_list,  \* the caller's list object, which is the work queue
    found,        \* found
    raised,       \* the PackageNotFoundError raised, if any
    result,       \* the value returned, if any
    pc,           \* "loop", "done" (returned) or "error" (raised)
    dir_exists,   \* os.path.exists(egg_info_dir)
    file,         \* paster_plugins.txt: whether it exists, and its lines
    last,         \* the last add_plugin or remove_plugin call and how it ended
    fs,           \* path -> whether os.listdir works there, and what it gives
    start_dir,    \* the argument of find_egg_info_dir
    dir,          \* dir
    find_pc,      \* "walk" or "done"
    find_result   \* the value find_egg_info_dir returned

resolveVars == <<registry, input, plugin_list, found, raised, result, pc>>
manifestVars == <<dir_exists, file, last>>
findVars == <<fs, start_dir, dir, find_pc, find_result>>
vars == <<resolveVars, manifestVars, findVars>>

\* distribution(plugin)
distribution(plugin) ==
    IF plugin \in DOMAIN registry THEN registry[plugin] ELSE Absent

\* Pushes with the lines of the manifest taken as they are, not through
\* parse_lines: what a reader that forgot to strip and to skip comments does.
PushesRawLines(dist, fnd) ==
    IF dist.metadata_version /\ dist.has_plugins
    THEN LET NotFound(add_plugin) == ~InList(add_plugin, fnd)
         IN  SelectSeq(dist.paster_plugins, NotFound)
    ELSE <<>>

\* The names the body of the loop appends to plugin_list for the distribution
\* dist, fnd being found after found.append(plugin).
Pushes(dist, fnd) ==
    IF dist.metadata_version
    THEN IF dist.has_plugins /\ dist.paster_plugins # <<>>
         THEN LET NotFound(add_plugin) == ~InList(add_plugin, fnd)
              IN  SelectSeq(parse_lines(dist.paster_plugins), NotFound)
         ELSE <<>>
    ELSE <<>>

\* FoundAppend without the append: a loop that never records what it found.
FoundForgotten(fnd, plugin) == fnd

\* found.append(plugin)
FoundAppend(fnd, plugin) == Append(fnd, plugin)

\* plugin_list.pop(), the list it leaves
Popped(lst) == SubSeq(lst, 1, Len(lst) - 1)

ResolveInit ==
    /\ registry \in [PluginNames -> DistChoices]
    /\ input \in ListsUpTo(PluginNames, MaxInit)
    /\ plugin_list = input
    /\ found = <<>>
    /\ raised = NotRaised
    /\ result = NotReturned
    /\ pc = "loop"

\* One pass of the loop whose lookup succeeds.
ResolveStep ==
    /\ pc = "loop"
    /\ plugin_list # <<>>
    /\ LET plugin == plugin_list[Len(plugin_list)]
           dist == distribution(plugin)
       IN  /\ dist.present
           /\ found' = FoundAppend(found, plugin)
           /\ plugin_list' = Popped(plugin_list) \o Pushes(dist, found')
    /\ UNCHANGED <<registry, input, raised, result, pc, manifestVars, findVars>>

\* ResolveRaise with the exception swallowed: the missing name is dropped
\* and the loop goes on.
ResolveSkipsMissing ==
    /\ pc = "loop"
    /\ plugin_list # <<>>
    /\ ~distribution(plugin_list[Len(plugin_list)]).present
    /\ plugin_list' = Popped(plugin_list)
    /\ UNCHANGED <<registry, input, found, raised, result, pc, manifestVars, findVars>>

\* ResolveRaise with the lookup made on plugin_list[-1], before the pop.
ResolveRaisesBeforePop ==
    /\ pc = "loop"
    /\ plugin_list # <<>>
    /\ ~distribution(plugin_list[Len(plugin_list)]).present
    /\ raised' = Raised(plugin_list[Len(plugin_list)])
    /\ pc' = "error"
    /\ UNCHANGED <<registry, input, plugin_list, found, result, manifestVars, findVars>>

\* One pass of the loop whose lookup raises PackageNotFoundError.
ResolveRaise ==
    /\ pc = "loop"
    /\ plugin_list # <<>>
    /\ LET plugin == plugin_list[Len(plugin_list)]
       IN  /\ ~distribution(plugin).present
           /\ plugin_list' = Popped(plugin_list)
           /\ raised' = Raised(plugin)
    /\ pc' = "error"
    /\ UNCHANGED <<registry, input, found, result, manifestVars, findVars>>

\* The loop ends: return list(map(get_distro, found)).
ResolveReturn ==
    /\ pc = "loop"
    /\ plugin_list = <<>>
    /\ result' = Returned(found)
    /\ pc' = "done"
    /\ UNCHANGED <<registry, input, plugin_list, found, raised, manifestVars, findVars>>

\* ------------------------------------------------------ manifest store

\* Most lines a manifest is let grow to: add_plugin is not called on a
\* manifest of that many entries, unless with a name it holds.
MaxLines == 3

\* The names add_plugin and remove_plugin are called with: two that differ in
\* case only, a third, one with a trailing blank, one that reads as a
\* comment, and the empty name.
ArgNames ==
    {S1("x"), S1("X"), S1("y"), S2("x", " "), S2("#", "x"), <<>>}

\* paster_plugins.txt does not exist, and exists with these lines.
NoFile == [exists |-> FALSE, lines |-> <<>>]
FileOf(lines) == [exists |-> TRUE, lines |-> lines]

\* Files an editor may have left before the first call: a comment above a
\* name, a blank line between two names, a padded name, a comment alone.
EditedFiles ==
    { <<S2("#", "c"), S1("x")>>,
      <<S1("x"), <<>>, S1("y")>>,
      <<S3(" ", "X", " ")>>,
      <<S2("#", "c")>> }

\* [l.strip() for l in f.readlines() if l.strip()]
StrippedLines(f) ==
    LET stripped == [i \in 1..Len(f) |-> Strip(f[i])]
        NonBlank(l) == l # <<>>
    IN  SelectSeq(stripped, NonBlank)

\* plugin_name in lines
NameInLines(plugin_name, lines) == InList(plugin_name, lines)

\* line.lower() == plugin_name.lower()
Matches(line, plugin_name) == Lower(line) = Lower(plugin_name)

\* ListRemove taking out every line that equals line ignoring case.
RECURSIVE ListRemoveAll(_, _)
ListRemoveAll(lines, line) ==
    IF lines = <<>> THEN <<>>
    ELSE IF Lower(Head(lines)) = Lower(line)
         THEN ListRemoveAll(Tail(lines), line)
         ELSE <<Head(lines)>> \o ListRemoveAll(Tail(lines), line)

\* lines.remove(line): lines without the first element equal to line
RECURSIVE ListRemove(_, _)
ListRemove(lines, line) ==
    IF lines = <<>> THEN <<>>
    ELSE IF Head(lines) = line
         THEN Tail(lines)
         ELSE <<Head(lines)>> \o ListRemove(Tail(lines), line)

\* The call just made: its name, its argument, the file before it and the
\* exception it raised.  Both exceptions of remove_plugin are ValueError; they
\* are named here by what their messages say: "ManifestNotFound" is "file
\* does not exist", "PluginNotInManifest" is "Plugin ... not found in file".
Call(op, plugin_name, error) ==
    [op |-> op, name |-> plugin_name, before |-> file, error |-> error]

NoCall == [op |-> "none", name |-> <<>>, before |-> NoFile, error |-> "None"]

\* f = open(fn, 'w'); for line in lines: f.write(line); f.write('\n')
\* No name of ArgNames holds a line break, so each list element is one line.
Written(lines) == FileOf(lines)

\* add_plugin(egg_info_dir, plugin_name)
add_plugin(plugin_name) ==
    LET lines == IF ~file.exists THEN <<>> ELSE StrippedLines(file.lines)
    IN  /\ NameInLines(plugin_name, lines) \/ Len(lines) < MaxLines
        /\ IF NameInLines(plugin_name, lines)
           THEN UNCHANGED <<dir_exists, file>>
           ELSE /\ dir_exists' = TRUE
                /\ file' = Written(Append(lines, plugin_name))
        /\ last' = Call("add", plugin_name, "None")
        /\ UNCHANGED <<resolveVars, findVars>>

\* RemoveFromMissingFile reading a missing file as an empty one, the way
\* add_plugin does, and writing it back.
RemoveCreatesFile(plugin_name) ==
    /\ ~file.exists
    /\ dir_exists' = TRUE
    /\ file' = Written(<<>>)
    /\ last' = Call("remove", plugin_name, "PluginNotInManifest")
    /\ UNCHANGED <<resolveVars, findVars>>

\* remove_plugin(egg_info_dir, plugin_name) where the file does not exist
RemoveFromMissingFile(plugin_name) ==
    /\ ~file.exists
    /\ last' = Call("remove", plugin_name, "ManifestNotFound")
    /\ UNCHANGED <<dir_exists, file, resolveVars, findVars>>

\* remove_plugin(egg_info_dir, plugin_name) where the file exists
remove_plugin(plugin_name) ==
    /\ file.exists
    /\ LET lines == StrippedLines(file.lines)
           hits == {i \in 1..Len(lines) : Matches(lines[i], plugin_name)}
       IN  IF hits = {}
           THEN /\ last' = Call("remove", plugin_name, "PluginNotInManifest")
                /\ UNCHANGED file
           ELSE LET line == lines[CHOOSE i \in hits : \A j \in hits : i <= j]
                IN  /\ file' = Written(ListRemove(lines, line))
                    /\ last' = Call("remove", plugin_name, "None")
    /\ UNCHANGED <<dir_exists, resolveVars, findVars>>

AddPlugin == \E plugin_name \in ArgNames : add_plugin(plugin_name)

RemovePluginNoFile == \E plugin_name \in ArgNames : RemoveFromMissingFile(plugin_name)

RemovePlugin == \E plugin_name \in ArgNames : remove_plugin(plugin_name)

\* ------------------------------------------- metadata directory locator

\* Deepest directory the walk starts from, counted from the root.
MaxDepth == 2

\* os.listdir(dir) raises OSError, and gives filenames.
Unreadable == [readable |-> FALSE, filenames |-> <<>>]
Listing(filenames) == [readable |-> TRUE, filenames |-> filenames]

\* find_egg_info_dir returns None, and returns a path.
ReturnedNone == [none |-> TRUE, path |-> <<>>]
ReturnedPath(path) == [none |-> FALSE, path |-> path]

\* '.egg-info'
EggInfoSuffix == <<".", "e", "g", "g", "-", "i", "n", "f", "o">>

\* The path of the directory k levels below the root: /d/d/.../d.  A path is
\* the list of its components, and the root is the empty list.
PathAt(k) == [i \in 1..k |-> S1("d")]

Paths == {PathAt(k) : k \in 0..MaxDepth}

\* An entry of a directory: its name, and whether it is a directory.
Entry(name, isdir) == [name |-> name, isdir |-> isdir]

\* What os.listdir may give: nothing; a plain file; a metadata directory; a
\* plain file with the suffix; a name that holds the suffix but does not end
\* with it; a file with the suffix before a metadata directory; two metadata
\* directories.
Listings ==
    { <<>>,
      <<Entry(S1("s"), FALSE)>>,
      <<Entry(S1("p") \o EggInfoSuffix, TRUE)>>,
      <<Entry(S1("p") \o EggInfoSuffix, FALSE)>>,
      <<Entry(EggInfoSuffix \o S1("x"), TRUE)>>,
      <<Entry(S1("p") \o EggInfoSuffix, FALSE), Entry(S1("q") \o EggInfoSuffix, TRUE)>>,
      <<Entry(S1("p") \o EggInfoSuffix, TRUE), Entry(S1("q") \o EggInfoSuffix, TRUE)>> }

\* str.endswith(suffix)
EndsWith(s, suffix) ==
    /\ Len(s) >= Len(suffix)
    /\ SubSeq(s, Len(s) - Len(suffix) + 1, Len(s)) = suffix

\* os.path.join(dir, fn)
PathJoin(d, fn) == Append(d, fn)

\* os.path.dirname(dir): the root is its own parent
DirName(d) == IF d = <<>> THEN <<>> ELSE SubSeq(d, 1, Len(d) - 1)

\* IsEggInfoDir without the os.path.isdir test.
IsEggInfoName(entry) == EndsWith(entry.name, EggInfoSuffix)

\* fn.endswith('.egg-info') and os.path.isdir(os.path.join(dir, fn))
IsEggInfoDir(entry) == EndsWith(entry.name, EggInfoSuffix) /\ entry.isdir

\* The places in filenames of the entries the for loop returns at.
EggInfoAt(filenames) == {i \in 1..Len(filenames) : IsEggInfoDir(filenames[i])}

FindInit ==
    /\ fs \in [Paths -> {Unreadable} \cup {Listing(l) : l \in Listings}]
    /\ start_dir \in Paths
    /\ dir = start_dir
    /\ find_pc = "walk"
    /\ find_result = ReturnedNone

\* os.listdir(dir) raises OSError: return None
FindUnreadable ==
    /\ find_pc = "walk"
    /\ ~fs[dir].readable
    /\ find_result' = ReturnedNone
    /\ find_pc' = "done"
    /\ UNCHANGED <<fs, start_dir, dir, resolveVars, manifestVars>>

\* the for loop finds a metadata directory: return os.path.join(dir, fn)
FindMatch ==
    /\ find_pc = "walk"
    /\ fs[dir].readable
    /\ EggInfoAt(fs[dir].filenames) # {}
    /\ LET hits == EggInfoAt(fs[dir].filenames)
           first == CHOOSE i \in hits : \A j \in hits : i <= j
       IN  find_result' = ReturnedPath(PathJoin(dir, fs[dir].filenames[first].name))
    /\ find_pc' = "done"
    /\ UNCHANGED <<fs, start_dir, dir, resolveVars, manifestVars>>

\* no match here, and dir has a parent: dir = parent
FindAscend ==
    /\ find_pc = "walk"
    /\ fs[dir].readable
    /\ EggInfoAt(fs[dir].filenames) = {}
    /\ DirName(dir) # dir
    /\ dir' = DirName(dir)
    /\ UNCHANGED <<fs, start_dir, find_pc, find_result, resolveVars, manifestVars>>

\* no match here, and parent == dir: return None
FindTop ==
    /\ find_pc = "walk"
    /\ fs[dir].readable
    /\ EggInfoAt(fs[dir].filenames) = {}
    /\ DirName(dir) = dir
    /\ find_result' = ReturnedNone
    /\ find_pc' = "done"
    /\ UNCHANGED <<fs, start_dir, dir, resolveVars, manifestVars>>

\* ------------------------------------------------------ specifications

ResolveIdle ==
    /\ registry = [n \in PluginNames |-> Absent]
    /\ input = <<>>
    /\ plugin_list = <<>>
    /\ found = <<>>
    /\ raised = NotRaised
    /\ result = NotReturned
    /\ pc = "idle"

ManifestIdle ==
    /\ dir_exists = FALSE
    /\ file = NoFile
    /\ last = NoCall

FindIdle ==
    /\ fs = [p \in Paths |-> Listing(<<>>)]
    /\ start_dir = <<>>
    /\ dir = <<>>
    /\ find_pc = "idle"
    /\ find_result = ReturnedNone

\* The resolver, from any registry and any list of names.
Init == ResolveInit /\ ManifestIdle /\ FindIdle

Next == ResolveStep \/ ResolveRaise \/ ResolveReturn

Spec == Init /\ [][Next]_vars

\* The loop is not suspended: while a step is possible, one is taken.
FairSpec == Spec /\ WF_vars(Next)

\* The manifest store, from a directory that has no manifest.
ManifestInit ==
    /\ ResolveIdle
    /\ FindIdle
    /\ dir_exists \in BOOLEAN
    /\ file = NoFile
    /\ last = NoCall

ManifestNext == AddPlugin \/ RemovePluginNoFile \/ RemovePlugin

ManifestSpec == ManifestInit /\ [][ManifestNext]_vars

\* The manifest store, from no manifest or one an editor has written.
RewriteInit ==
    /\ ResolveIdle
    /\ FindIdle
    /\ file \in {NoFile} \cup {FileOf(f) : f \in EditedFiles}
    /\ dir_exists \in (IF file.exists THEN {TRUE} ELSE BOOLEAN)
    /\ last = NoCall

RewriteSpec == RewriteInit /\ [][ManifestNext]_vars

\* The locator, from any start directory in any tree.
LocatorInit == ResolveIdle /\ ManifestIdle /\ FindInit

LocatorNext == FindUnreadable \/ FindMatch \/ FindAscend \/ FindTop

FindSpec == LocatorInit /\ [][LocatorNext]_vars

\* ------------------------------------------------- claims: the resolver

Terminal == {"done", "error"}

\* The names the registry holds a distribution for.
Present == {n \in PluginNames : registry[n].present}

\* No element of lst occurs in it twice.
NoDuplicates(lst) == \A i, j \in 1..Len(lst) : lst[i] = lst[j] => i = j

\* The names the manifest of n lists; with gated, only where the metadata of
\* n has a Metadata-Version.
Lists(n, gated) ==
    LET d == IF n \in DOMAIN registry THEN registry[n] ELSE Absent
    IN  IF d.present /\ d.has_plugins /\ (gated => d.metadata_version)
        THEN Range(parse_lines(d.paster_plugins))
        ELSE {}

\* The transitive closure of the names S under Lists.
RECURSIVE Closure(_, _)
Closure(S, gated) ==
    LET more == S \cup UNION {Lists(n, gated) : n \in S}
    IN  IF more = S THEN S ELSE Closure(more, gated)

\* Some name found lies on a cycle of manifests.
OnCycle(n) == n \in Closure(Lists(n, TRUE), TRUE)

\* C1: the list resolve_plugins returns holds no plugin name more than once,
\* whatever the registry and the initial list.  Stated here for initial
\* lists that do not repeat a name themselves, which is the weaker claim.
C1_ResultHasNoDuplicate ==
    (pc = "done" /\ NoDuplicates(input)) => NoDuplicates(result.value)

\* C2: resolve_plugins terminates: from any registry and any initial list,
\* also with manifests that list each other, it returns or raises.
C2_Terminates == <>(pc \in Terminal)

\* C2 witness: the call has ended on a registry where a found name lies on a
\* cycle of manifests.
C2_Witness ==
    /\ pc = "done"
    /\ \E n \in Range(found) : OnCycle(n)
    /\ Cardinality(Range(found)) >= 2

C4_AbsentNameRaises ==
    /\ (pc \in Terminal /\ ~(Closure(Range(input), TRUE) \subseteq Present))
           => pc = "error"
    /\ pc = "error"
           => /\ raised.raised
              /\ raised.plugin \in Closure(Range(input), TRUE) \ Present
              /\ ~result.returned
    /\ pc # "error" => ~raised.raised

\* C4 witness: the call raised for a name that is not in the initial list.
C4_Witness ==
    /\ pc = "error"
    /\ raised.plugin \notin Range(input)

\* C10: the list passed in is the work queue: it is empty when the call
\* returns, and it is no longer the list passed in when the call raises.
C10_InputConsumed ==
    /\ pc = "done" => plugin_list = <<>>
    /\ pc = "error" => /\ plugin_list # input
                       /\ Len(input) > 0
    /\ (pc = "done" /\ input # <<>>) => plugin_list # input

\* C10 witness: the call raised after names were found, with names left in
\* the list.
C10_Witness ==
    /\ pc = "error"
    /\ found # <<>>
    /\ plugin_list # <<>>

\* --------------------------------------------- claims: the manifest store

\* line equals name when case is ignored
SameIgnoringCase(line, name) ==
    [i \in 1..Len(line) |-> LowerChar(line[i])]
        = [i \in 1..Len(name) |-> LowerChar(name[i])]

\* The entries of a manifest file as add_plugin and remove_plugin read them.
Entries(f) ==
    LET NonBlank(l) == l # <<>>
    IN  SelectSeq([i \in 1..Len(f.lines) |-> Strip(f.lines[i])], NonBlank)

\* The places in lst of the entries that equal name when case is ignored.
PlacesOf(name, lst) == {i \in 1..Len(lst) : SameIgnoringCase(lst[i], name)}

\* lst without the element at place i
Without(lst, i) == SubSeq(lst, 1, i - 1) \o SubSeq(lst, i + 1, Len(lst))

\* A name a caller means as a plugin name: not blank, not a comment, and
\* without blanks around it.
ProperName(name) ==
    name # <<>> /\ Strip(name) = name /\ ~StartsWithHash(name)

\* The last call wrote the file.
Rewrote == last.op # "none" /\ file # last.before

\* C5: from an absent manifest, after any calls of add_plugin and
\* remove_plugin no name is in the manifest more than once.  Stated here of
\* the lines of the file as they are written, compared exactly.
C5_NoNameTwice == NoDuplicates(file.lines)

\* C6: remove_plugin raises for a missing file, and raises when no line
\* equals the name ignoring case; in both cases the file is as it was.
C6_RemoveFailures ==
    last.op = "remove" =>
        /\ ~last.before.exists => last.error = "ManifestNotFound"
        /\ (last.before.exists /\ PlacesOf(last.name, Entries(last.before)) = {})
               => last.error = "PluginNotInManifest"
        /\ (last.before.exists /\ PlacesOf(last.name, Entries(last.before)) # {})
               => last.error = "None"
        /\ last.error # "None" => file = last.before

\* C6 witness: remove_plugin raised for a name that is not in a manifest
\* that has entries.
C6_Witness ==
    /\ last.op = "remove"
    /\ last.error = "PluginNotInManifest"
    /\ Entries(file) # <<>>

\* C7 as stated: after remove_plugin succeeds, reading the manifest yields
\* no entry that equals the name ignoring case.
C7_NoMatchLeft ==
    (last.op = "remove" /\ last.error = "None")
        => PlacesOf(last.name, parse_lines(file.lines)) = {}

\* C7 as amended: after remove_plugin succeeds, the first entry that equals
\* the name ignoring case is gone and the other entries are kept in order;
\* no such entry is left when the manifest held one only.
C7_FirstMatchRemoved ==
    (last.op = "remove" /\ last.error = "None")
        => LET before == Entries(last.before)
               hits == PlacesOf(last.name, before)
           IN  /\ hits # {}
               /\ \E i \in hits :
                      /\ \A j \in hits : i <= j
                      /\ file = FileOf(Without(before, i))
               /\ Cardinality(hits) = 1
                      => PlacesOf(last.name, parse_lines(file.lines)) = {}

\* C7 witness: remove_plugin succeeded for a name that is in the manifest in
\* another case only.
C7_Witness ==
    /\ last.op = "remove"
    /\ last.error = "None"
    /\ ~InList(last.name, Entries(last.before))
    /\ PlacesOf(last.name, parse_lines(file.lines)) = {}

\* C8: a file add_plugin or remove_plugin writes has no blank line and no
\* '#' comment line, and the plugin names are in their order.  Stated here
\* for calls whose own argument is a proper plugin name.
C8_RewriteDropsCommentsAndBlanks ==
    (Rewrote /\ ProperName(last.name))
        => /\ \A i \in 1..Len(file.lines) :
                  /\ Strip(file.lines[i]) # <<>>
                  /\ ~StartsWithHash(Strip(file.lines[i]))
           /\ last.op = "add"
                  => parse_lines(file.lines)
                         = Append(parse_lines(last.before.lines), last.name)

\* ------------------------------------------------- claims: the locator

\* The directory p has a metadata directory as a child.
HasMetadataChild(p) ==
    \E i \in 1..Len(fs[p].filenames) :
        LET e == fs[p].filenames[i]
        IN  e.isdir /\ Len(e.name) >= Len(EggInfoSuffix)
                    /\ SubSeq(e.name, Len(e.name) - Len(EggInfoSuffix) + 1,
                              Len(e.name)) = EggInfoSuffix

\* start_dir and its ancestors, by depth.
Walked == {k \in 0..Len(start_dir) : TRUE}

\* The depths at which the walk from start_dir ends: a directory that cannot
\* be listed, or one with a metadata child.
Stops == {k \in Walked : ~fs[PathAt(k)].readable \/ HasMetadataChild(PathAt(k))}

\* C9: find_egg_info_dir returns the metadata child of the directory nearest
\* to start_dir that has one, and None when no directory up to the root has
\* one or a directory on the way cannot be listed; the walk stays on the
\* ancestors of start_dir and ends at the root at the latest.
C9_NearestMetadataDir ==
    /\ find_pc \in {"walk", "done"}
    /\ dir = PathAt(Len(dir)) /\ Len(dir) \in Walked
    /\ find_pc = "walk" => \A k \in Stops : k <= Len(dir)
    /\ find_pc = "done" =>
           IF Stops = {}
           THEN find_result.none /\ dir = <<>>
           ELSE LET k == CHOOSE n \in Stops : \A m \in Stops : m <= n
                    p == PathAt(k)
                IN  IF ~fs[p].readable
                    THEN find_result.none
                    ELSE /\ ~find_result.none
                         /\ \E i \in 1..Len(fs[p].filenames) :
                                /\ fs[p].filenames[i].isdir
                                /\ find_result.path
                                       = Append(p, fs[p].filenames[i].name)
                                /\ SubSeq(fs[p].filenames[i].name,
                                          Len(fs[p].filenames[i].name)
                                              - Len(EggInfoSuffix) + 1,
                                          Len(fs[p].filenames[i].name))
                                       = EggInfoSuffix

\* C9 witness: the walk returned a metadata directory of a proper ancestor of
\* start_dir.
C9_Witness ==
    /\ find_pc = "done"
    /\ ~find_result.none
    /\ Len(find_result.path) <= Len(start_dir)

====
